---------------------------- MODULE Spec2Model ----------------------------
(***************************************************************************)
(* Transport coordination core of matter-rs:                               *)
(*   - RxCtrState   (transport/dedup.rs): the receive counter window;      *)
(*   - Exchange, ExchangeMgr (transport/exchange.rs): the exchange table.  *)
(*                                                                         *)
(* Number representation.  TLC's integers are 32-bit signed, so a u32 is   *)
(* held as the i32 that has the same 32 bits (4294967295 is held as -1).   *)
(* The cast `x as i32` of the source is then the identity on the held      *)
(* value, u32 comparisons are made by ULt, and the i32 subtraction is      *)
(* I32Sub, which reports whether the mathematical result left the i32      *)
(* range and gives the wrapped result.                                     *)
(***************************************************************************)
EXTENDS Integers, Sequences, FiniteSets, TLC

-----------------------------------------------------------------------------
(* Machine integers *)

I32_MAX == (1073741823 + 1073741823) + 1

I32_MIN == (-I32_MAX) - 1

U16_MAX == 65535

\* The held value of the u32 whose upper and lower 16-bit halves are hi, lo.
U32(hi, lo) == IF hi < 32768 THEN hi * 65536 + lo ELSE (hi - 65536) * 65536 + lo

\* a < b as u32 values
ULt(a, b) == IF (a >= 0) = (b >= 0) THEN a < b ELSE a >= 0

\* a - b on i32: ovf tells whether the mathematical difference is outside the
\* i32 range, val is the difference wrapped to 32 bits.
I32Sub(a, b) ==
    IF a >= 0 /\ b < 0 /\ a > I32_MAX + b
    THEN [ovf |-> TRUE, val |-> ((a + I32_MIN) - b) + I32_MIN]
    ELSE IF a < 0 /\ b >= 0 /\ a < I32_MIN + b
    THEN [ovf |-> TRUE, val |-> (((a - I32_MIN) - b) + I32_MAX) + 1]
    ELSE [ovf |-> FALSE, val |-> a - b]

\* i32::unsigned_abs, the result held as a u32 (2^31 is held as I32_MIN)
UnsignedAbs(i) == IF i >= 0 THEN i ELSE IF i = I32_MIN THEN I32_MIN ELSE -i

\* a + k on u32, wrapping (k a small natural number)
U32Add(a, k) == I32Sub(a, -k).val

Pow2(n) == 2 ^ n

-----------------------------------------------------------------------------
(* Bounds of the model *)

\* Counters are drawn from Span+1 consecutive values starting at each anchor.
Span == 2

\* Anchors: 0; one window length above 0; the u16 boundary; the i32 boundary;
\* the u32 boundary (wrapping to 0).
Anchors == {0, 16, U32(0, 65535), I32_MAX, U32(65535, 65534)}

Ctrs == {U32Add(a, k) : a \in Anchors, k \in 0..Span}

\* Exchange ids carried by packets and passed by callers: 1..NumExchIds
NumExchIds == 2

ExchIds == 1..NumExchIds

\* Capacity of the session table (session::MAX_SESSIONS), scaled down
MAX_SESSIONS == 2

SessIdx == 0..(MAX_SESSIONS - 1)

-----------------------------------------------------------------------------
(* RxCtrState *)

MSG_RX_STATE_BITMAP_LEN == 16

Dup == "duplicate"
NotDup == "accepted"
Panic == "panic"

VARIABLES
    max_ctr,          \* RxCtrState.max_ctr (u32)
    ctr_bitmap,       \* RxCtrState.ctr_bitmap (u16)
    overflow_checks,  \* the build: TRUE when integer overflow panics (debug)
    rx,               \* the last call of recv: its arguments and its result;
                      \* again: it repeats the counter the call before accepted
    enc_only,         \* history: every call of recv so far had is_encrypted = true
    probe,            \* history: one counter value, fixed for the whole run
    probe_accepts     \* history: how often recv accepted probe while enc_only

ctr_vars == <<max_ctr, ctr_bitmap, overflow_checks, rx, enc_only, probe,
              probe_accepts>>

VARIABLES
    exchanges,        \* ExchangeMgr.exchanges: exchange id -> Exchange
    sessions,         \* ExchangeMgr.sess_mgr: the indices that hold a session
    lru,              \* sess_mgr: the session indices, least recently used first
    out               \* the last operation on the manager: arguments and result

mgr_vars == <<exchanges, sessions, lru, out>>

vars == <<ctr_vars, mgr_vars>>

\* RxCtrState::contains
contains(bitmap, bit_number) == (bitmap \div Pow2(bit_number)) % 2 = 1

insert_lost(bitmap, bit_number) == bitmap

\* RxCtrState::insert
insert(bitmap, bit_number) ==
    IF contains(bitmap, bit_number) THEN bitmap ELSE bitmap + Pow2(bit_number)

Shl16_skipped(bitmap, n) == bitmap

\* ctr_bitmap <<= n on u16
Shl16(bitmap, n) == (bitmap * Pow2(n)) % (U16_MAX + 1)

IsMaxCtr_never(msg_ctr, max) == FALSE

\* msg_ctr == self.max_ctr
IsMaxCtr(msg_ctr, max) == msg_ctr = max

\* (-(MSG_RX_STATE_BITMAP_LEN as i32)..0).contains(&idiff)
InRxBitmap(idiff) == idiff >= -MSG_RX_STATE_BITMAP_LEN /\ idiff < 0

IsForward_signed(msg_ctr, max) == msg_ctr > max

\* msg_ctr > self.max_ctr, on u32
IsForward(msg_ctr, max) == ULt(max, msg_ctr)

RebootAllowed_always(is_encrypted) == TRUE

RebootAllowed_never(is_encrypted) == FALSE

\* !is_encrypted: only an unencrypted message may move max_ctr backwards
RebootAllowed(is_encrypted) == ~is_encrypted

\* The else-if chain of recv once idiff is computed: the new fields and the
\* returned value.
recv_body(max, bitmap, msg_ctr, is_encrypted, idiff) ==
    LET udiff == UnsignedAbs(idiff) IN
    IF IsMaxCtr(msg_ctr, max)
    THEN [max_ctr |-> max, ctr_bitmap |-> bitmap, ret |-> Dup]
    ELSE IF InRxBitmap(idiff)
    THEN LET index == udiff - 1 IN
         IF contains(bitmap, index)
         THEN [max_ctr |-> max, ctr_bitmap |-> bitmap, ret |-> Dup]
         ELSE [max_ctr |-> max, ctr_bitmap |-> insert(bitmap, index), ret |-> NotDup]
    ELSE IF IsForward(msg_ctr, max)
    THEN IF ULt(udiff, MSG_RX_STATE_BITMAP_LEN)
         THEN [max_ctr |-> msg_ctr,
               ctr_bitmap |-> insert(Shl16(bitmap, udiff), udiff - 1),
               ret |-> NotDup]
         ELSE [max_ctr |-> msg_ctr, ctr_bitmap |-> U16_MAX, ret |-> NotDup]
    ELSE IF RebootAllowed(is_encrypted)
    THEN [max_ctr |-> msg_ctr, ctr_bitmap |-> U16_MAX, ret |-> NotDup]
    ELSE [max_ctr |-> max, ctr_bitmap |-> bitmap, ret |-> Dup]

\* RxCtrState::recv.  The subtraction of line 28 is an i32 subtraction: when
\* it overflows, a build with overflow checks panics before any field is
\* written, and a build without them continues with the wrapped difference.
recv(max, bitmap, msg_ctr, is_encrypted, checks) ==
    LET d == I32Sub(msg_ctr, max) IN
    IF d.ovf /\ checks
    THEN [max_ctr |-> max, ctr_bitmap |-> bitmap, ret |-> Panic]
    ELSE recv_body(max, bitmap, msg_ctr, is_encrypted, d.val)

\* RxCtrState::new(max_ctr), for any starting counter and either build
RxCtrState_new ==
    /\ max_ctr \in Ctrs
    /\ ctr_bitmap = U16_MAX
    /\ overflow_checks \in BOOLEAN
    /\ rx = [op |-> "new", msg_ctr |-> max_ctr, is_encrypted |-> TRUE,
             ret |-> NotDup, again |-> FALSE]
    /\ enc_only = TRUE
    /\ probe \in Ctrs
    /\ probe_accepts = 0

\* One call s.recv(msg_ctr, is_encrypted)
RxCtrState_recv(msg_ctr, is_encrypted) ==
    LET r == recv(max_ctr, ctr_bitmap, msg_ctr, is_encrypted, overflow_checks) IN
    /\ max_ctr' = r.max_ctr
    /\ ctr_bitmap' = r.ctr_bitmap
    /\ rx' = [op |-> "recv", msg_ctr |-> msg_ctr, is_encrypted |-> is_encrypted,
              ret |-> r.ret,
              again |-> (rx.op = "recv" /\ rx.ret = NotDup /\ rx.msg_ctr = msg_ctr)]
    /\ enc_only' = (enc_only /\ is_encrypted)
    /\ probe_accepts' = IF ~enc_only' THEN 0
                        ELSE IF r.ret = NotDup /\ msg_ctr = probe /\ probe_accepts < 2
                        THEN probe_accepts + 1
                        ELSE probe_accepts
    /\ UNCHANGED <<overflow_checks, probe>>
    /\ UNCHANGED mgr_vars

-----------------------------------------------------------------------------
(* Collaborators of the exchange manager: the reliability state (mrp.rs), the
   session table (session.rs) and the packet pool are not part of the sources
   at hand; they are modelled from their interfaces. *)

\* ReliableMessage, abstracted to what is_empty tells: no acknowledgement or
\* retransmission is pending, or some is.
MrpStates == {"empty", "pending"}

\* ReliableMessage::new
mrp_new == "empty"

\* ReliableMessage::is_empty
mrp_is_empty(mrp) == mrp = "empty"

\* The calls into the session, the reliability state and the packet pool that
\* can fail; an operation is given the first of its calls that fails, if any.
NoFail == "none"
FailPoints == {"build", "session.pre_send", "mrp.pre_send", "session.send",
               "sess_mgr.recv", "session.recv", "mrp.recv"}

\* The error a failing collaborator call returns
ErrOf(call) == IF call = "build" THEN "NoSpace" ELSE call

Restrict(f, S) == [k \in S |-> f[k]]

\* SessionMgr: the lowest free index, or -1 when the table is full.  The
\* session table is held as the set of the indices that hold a session.
empty_slot(sess) ==
    LET free == SessIdx \ sess IN
    IF free = {} THEN -1 ELSE CHOOSE i \in free : \A j \in free : i <= j

\* SessionMgr: a use of the session at idx makes it the most recently used
touch(l, idx) == SelectSeq(l, LAMBDA i : i # idx) \o <<idx>>

\* SessionMgr::get_lru
get_lru(l) == Head(l)

\* SessionMgr::remove
sess_remove(sess, idx) == sess \ {idx}

\* SessionMgr::clone_session and the creation of a session by post_recv: the
\* session takes the lowest free index, NoSpace when there is none
sess_add(sess, l) ==
    LET idx == empty_slot(sess) IN
    IF idx = -1
    THEN [ret |-> "NoSpace", idx |-> -1, sessions |-> sess, lru |-> l]
    ELSE [ret |-> "Ok", idx |-> idx, sessions |-> sess \cup {idx},
          lru |-> touch(l, idx)]

-----------------------------------------------------------------------------
(* Exchange *)

Initiator == "Initiator"
Responder == "Responder"
Open == "Open"
Close == "Close"
Terminate == "Terminate"
DataNone == "None"

\* Exchange::new
Exchange_new(id, sess_idx, role) ==
    [id |-> id, sess_idx |-> sess_idx, role |-> role, state |-> Open,
     mrp |-> mrp_new, data |-> DataNone]

\* Exchange::terminate
terminate(e) == [e EXCEPT !.data = DataNone, !.state = Terminate]

\* Exchange::close
close(e) == [e EXCEPT !.data = DataNone, !.state = Close]

\* The caller types T of the blobs parked on exchanges
DataTypes == {"A", "B"}

\* DataOption::Boxed holding a value of type T
DataBoxed(T) == IF T = "A" THEN "Boxed<A>" ELSE "Boxed<B>"

\* DataOption::Time(t)
DataTime == "Time"

\* if let DataOption::Boxed(_)
IsBoxed(d) == \E T \in DataTypes : d = DataBoxed(T)

\* Box<dyn Any>::downcast::<T>().ok() and downcast_mut::<T>(): Some exactly
\* when the blob is of type T
downcast(d, T) == IF d = DataBoxed(T) THEN "Some" ELSE "None"

\* Exchange::is_data_none
is_data_none(e) == e.data = DataNone

\* Exchange::set_data_boxed
set_data_boxed(e, T) == [e EXCEPT !.data = DataBoxed(T)]

\* Exchange::clear_data_boxed
clear_data_boxed(e) == [e EXCEPT !.data = DataNone]

\* Exchange::get_data_boxed::<T>: a borrow, the slot is not written
get_data_boxed(e, T) == IF IsBoxed(e.data) THEN downcast(e.data, T) ELSE "None"

\* Exchange::take_data_boxed::<T>: the slot is emptied by mem::replace, and
\* written back only when the old value is not Boxed
take_data_boxed(e, T) ==
    LET old == e.data IN
    IF IsBoxed(old)
    THEN [exch |-> [e EXCEPT !.data = DataNone], ret |-> downcast(old, T)]
    ELSE [exch |-> [e EXCEPT !.data = old], ret |-> "None"]

\* Exchange::set_data_time(expiry_ts), some: expiry_ts is Some(t)
set_data_time(e, some) == IF some THEN [e EXCEPT !.data = DataTime] ELSE e

\* Exchange::get_data_time
get_data_time(e) == IF e.data = DataTime THEN "Some" ELSE "None"

is_state_open_unless_terminated(e) == e.state # Terminate

\* Exchange::is_state_open
is_state_open(e) == e.state = Open

is_purgeable_ignoring_mrp(e) == e.state \in {Terminate, Close}

\* Exchange::is_purgeable
is_purgeable(e) ==
    e.state = Terminate \/ (e.state = Close /\ mrp_is_empty(e.mrp))

\* get_complementary_role
get_complementary_role(is_initiator) ==
    IF is_initiator THEN Responder ELSE Initiator

SkipsTx_never(e) == FALSE

\* self.state == State::Terminate, the guard of Exchange::send
SkipsTx(e) == e.state = Terminate

\* The header fields of a packet Exchange::send has not stamped
NoHdr == [exch_id |-> 0, initiator |-> FALSE]

SetsInitiator_always(e) == TRUE

\* if self.role == Role::Initiator, the guard of proto.set_initiator()
SetsInitiator(e) == e.role = Initiator

\* Exchange::send(proto_tx, session).  fail is the first failing call, mrp_to
\* the reliability state mrp.pre_send leaves when it succeeds.  Gives the
\* exchange afterwards, the result, the calls made in order, the header
\* stamped on the packet and whether the session transmitted it.
Exchange_send(e, fail, mrp_to) ==
    LET hdr == [exch_id |-> e.id, initiator |-> SetsInitiator(e)] IN
    IF SkipsTx(e)
    THEN [exch |-> e, ret |-> "Ok", calls |-> <<>>, sent |-> FALSE,
          hdr |-> NoHdr]
    ELSE IF fail = "session.pre_send"
    THEN [exch |-> e, ret |-> ErrOf(fail), calls |-> <<"session.pre_send">>,
          sent |-> FALSE, hdr |-> hdr]
    ELSE IF fail = "mrp.pre_send"
    THEN [exch |-> e, ret |-> ErrOf(fail),
          calls |-> <<"session.pre_send", "mrp.pre_send">>, sent |-> FALSE,
          hdr |-> hdr]
    ELSE IF fail = "session.send"
    THEN [exch |-> [e EXCEPT !.mrp = mrp_to], ret |-> ErrOf(fail),
          calls |-> <<"session.pre_send", "mrp.pre_send", "session.send">>,
          sent |-> FALSE, hdr |-> hdr]
    ELSE [exch |-> [e EXCEPT !.mrp = mrp_to], ret |-> "Ok",
          calls |-> <<"session.pre_send", "mrp.pre_send", "session.send">>,
          sent |-> TRUE, hdr |-> hdr]

-----------------------------------------------------------------------------
(* ExchangeMgr *)

MAX_EXCHANGES == 8

map_insert_unbounded(exchs, id, e) ==
    [ok |-> TRUE,
     map |-> [k \in DOMAIN exchs \cup {id} |-> IF k = id THEN e ELSE exchs[k]]]

\* Capacity of the output map of pending_acks
MAX_MRP_ENTRIES == 4

\* LinearMap::insert of a key that is not in the map
map_insert(exchs, id, e) ==
    IF Cardinality(DOMAIN exchs) >= MAX_EXCHANGES
    THEN [ok |-> FALSE, map |-> exchs]
    ELSE [ok |-> TRUE,
          map |-> [k \in DOMAIN exchs \cup {id} |-> IF k = id THEN e ELSE exchs[k]]]

IsMissing_always(exchs, id) == TRUE

\* !exchanges.contains_key(&id), the guard of the creation in _get
IsMissing(exchs, id) == id \notin DOMAIN exchs

CreateAllowed_always(create_new) == TRUE

\* if create_new, the guard of the creation in _get
CreateAllowed(create_new) == create_new

\* result.get_role() == role && sess_idx == result.sess_idx
Matches(e, sess_idx, role) == e.role = role /\ sess_idx = e.sess_idx

\* ExchangeMgr::_get: the table afterwards and Ok (the exchange with this id
\* is returned) or the error
mgr_get(exchs, sess_idx, id, role, create_new) ==
    LET ins == map_insert(exchs, id, Exchange_new(id, sess_idx, role)) IN
    IF IsMissing(exchs, id) /\ ~CreateAllowed(create_new)
    THEN [exchanges |-> exchs, ret |-> "NoSpace"]
    ELSE IF IsMissing(exchs, id) /\ ~ins.ok
    THEN [exchanges |-> exchs, ret |-> "NoSpace"]
    ELSE LET tbl == IF IsMissing(exchs, id) THEN ins.map ELSE exchs IN
         IF Matches(tbl[id], sess_idx, role)
         THEN [exchanges |-> tbl, ret |-> "Ok"]
         ELSE [exchanges |-> tbl, ret |-> "NoExchange"]

BoundTo_first_only(exchs, index) ==
    LET all == {id \in DOMAIN exchs : exchs[id].sess_idx = index} IN
    {id \in all : \A j \in all : id <= j}

\* The exchanges bound to session index
BoundTo(exchs, index) == {id \in DOMAIN exchs : exchs[id].sess_idx = index}

DropSession_skipped(sess, index) == sess

\* sess_mgr.remove(index), the last statement of evict_session
DropSession(sess, index) == sess_remove(sess, index)

\* ExchangeMgr::evict_session(index).  first is the exchange the iteration
\* over the map finds first among those bound to index (0 when there is none).
evict_session(exchs, sess, l, index, first, fail, mrp_to) ==
    LET snd == Exchange_send(exchs[first], fail, mrp_to) IN
    IF fail = "build"
    THEN [exchanges |-> exchs, sessions |-> sess, lru |-> l,
          ret |-> ErrOf(fail), calls |-> <<>>]
    ELSE IF first # 0 /\ snd.ret # "Ok"
    THEN [exchanges |-> [exchs EXCEPT ![first] = snd.exch], sessions |-> sess,
          lru |-> l, ret |-> snd.ret, calls |-> snd.calls]
    ELSE [exchanges |-> Restrict(exchs, DOMAIN exchs \ BoundTo(exchs, index)),
          sessions |-> DropSession(sess, index),
          lru |-> SelectSeq(l, LAMBDA i : i # index),
          ret |-> "Ok",
          calls |-> IF first # 0 THEN snd.calls ELSE <<>>]

\* The candidates for first
Firsts(exchs, index) ==
    IF BoundTo(exchs, index) = {} THEN {0} ELSE BoundTo(exchs, index)

\* The failures that can stop evict_session(index) when first is found first
EvictFails(exchs, first) ==
    {"build"} \cup
    (IF first # 0 /\ ~SkipsTx(exchs[first])
     THEN {"session.pre_send", "mrp.pre_send", "session.send"} ELSE {})

\* The record of an operation: op and ret, the exchange id and session index
\* it was given or resolved, role and flag (create_new of _get, the initiator
\* flag of the packet of recv, "the table was full" of add_session, "an
\* exchange was removed" of purge), the
\* collaborator calls made, and the session index evicted (-1: none).
\* hdr_id: the exchange id send stamped on the packet (0: none); again: the
\* call before this purge was a purge that removed an exchange; ty: the type
\* T of a payload accessor; ready: the exchanges whose reliability state
\* reported ack-ready to pending_acks; acks: the keys of its output map.
NoOut == [op |-> "new", ret |-> "Ok", exch_id |-> 0, sess_idx |-> -1,
          role |-> Responder, flag |-> FALSE, calls |-> <<>>, evicted |-> -1,
          hdr_id |-> 0, again |-> FALSE, ty |-> "", ready |-> {}, acks |-> {}]

\* ExchangeMgr::new(SessionMgr::new())
ExchangeMgr_new ==
    /\ exchanges = <<>>
    /\ sessions = {}
    /\ lru = <<>>
    /\ out = NoOut

\* A direct call of ExchangeMgr::_get, as the unit tests make it, for a session
\* the caller holds
ExchangeMgr_get(sess_idx, id, role, create_new) ==
    LET r == mgr_get(exchanges, sess_idx, id, role, create_new) IN
    /\ exchanges' = r.exchanges
    /\ out' = [NoOut EXCEPT !.op = "_get", !.ret = r.ret, !.exch_id = id,
                            !.sess_idx = sess_idx, !.role = role,
                            !.flag = create_new]
    /\ UNCHANGED <<sessions, lru>>
    /\ UNCHANGED ctr_vars

\* exch.close() on an exchange of the table (through get_with_id or the
\* context recv returned)
Exchange_close(id) ==
    /\ id \in DOMAIN exchanges
    /\ exchanges' = [exchanges EXCEPT ![id] = close(@)]
    /\ out' = [NoOut EXCEPT !.op = "close", !.exch_id = id]
    /\ UNCHANGED <<sessions, lru>>
    /\ UNCHANGED ctr_vars

\* exch.terminate() on an exchange of the table
Exchange_terminate(id) ==
    /\ id \in DOMAIN exchanges
    /\ exchanges' = [exchanges EXCEPT ![id] = terminate(@)]
    /\ out' = [NoOut EXCEPT !.op = "terminate", !.exch_id = id]
    /\ UNCHANGED <<sessions, lru>>
    /\ UNCHANGED ctr_vars

\* A payload accessor on an exchange of the table: op is its name, exch the
\* exchange it leaves, ret what it returns, ty its type argument
DataCall(id, op, exch, ret, ty) ==
    /\ id \in DOMAIN exchanges
    /\ exchanges' = [exchanges EXCEPT ![id] = exch]
    /\ out' = [NoOut EXCEPT !.op = op, !.exch_id = id, !.ret = ret, !.ty = ty]
    /\ UNCHANGED <<sessions, lru>>
    /\ UNCHANGED ctr_vars

Exchange_set_data_boxed(id, T) ==
    /\ id \in DOMAIN exchanges
    /\ DataCall(id, "set_data_boxed", set_data_boxed(exchanges[id], T), "Ok", T)

Exchange_clear_data_boxed(id) ==
    /\ id \in DOMAIN exchanges
    /\ DataCall(id, "clear_data_boxed", clear_data_boxed(exchanges[id]), "Ok", "")

Exchange_get_data_boxed(id, T) ==
    /\ id \in DOMAIN exchanges
    /\ DataCall(id, "get_data_boxed", exchanges[id],
                get_data_boxed(exchanges[id], T), T)

Exchange_take_data_boxed(id, T) ==
    /\ id \in DOMAIN exchanges
    /\ LET r == take_data_boxed(exchanges[id], T) IN
         DataCall(id, "take_data_boxed", r.exch, r.ret, T)

Exchange_set_data_time(id, some) ==
    /\ id \in DOMAIN exchanges
    /\ DataCall(id, "set_data_time", set_data_time(exchanges[id], some), "Ok", "")

Exchange_get_data_time(id) ==
    /\ id \in DOMAIN exchanges
    /\ DataCall(id, "get_data_time", exchanges[id], get_data_time(exchanges[id]), "")

\* ExchangeMgr::send(exch_id, proto_tx)
ExchangeMgr_send(exch_id, fail, mrp_to) ==
    IF exch_id \notin DOMAIN exchanges
    THEN /\ out' = [NoOut EXCEPT !.op = "send", !.ret = "NoExchange",
                                 !.exch_id = exch_id]
         /\ UNCHANGED <<exchanges, sessions, lru>>
         /\ UNCHANGED ctr_vars
    ELSE LET snd == Exchange_send(exchanges[exch_id], fail, mrp_to) IN
         /\ exchanges' = [exchanges EXCEPT ![exch_id] = snd.exch]
         /\ lru' = IF snd.sent THEN touch(lru, exchanges[exch_id].sess_idx) ELSE lru
         /\ out' = [NoOut EXCEPT !.op = "send", !.ret = snd.ret,
                                 !.exch_id = exch_id,
                                 !.sess_idx = exchanges[exch_id].sess_idx,
                                 !.role = exchanges[exch_id].role,
                                 !.flag = snd.hdr.initiator,
                                 !.hdr_id = snd.hdr.exch_id,
                                 !.calls = snd.calls]
         /\ UNCHANGED sessions
         /\ UNCHANGED ctr_vars

purge_first_only(exchs) ==
    LET gone == {id \in DOMAIN exchs : is_purgeable(exchs[id])} IN
    IF gone = {} THEN exchs
    ELSE Restrict(exchs, DOMAIN exchs \ {CHOOSE id \in gone : \A j \in gone : id <= j})

\* ExchangeMgr::purge
purge(exchs) ==
    Restrict(exchs, {id \in DOMAIN exchs : ~is_purgeable(exchs[id])})

ExchangeMgr_purge ==
    /\ exchanges' = purge(exchanges)
    /\ out' = [NoOut EXCEPT !.op = "purge",
                            !.flag = (purge(exchanges) # exchanges),
                            !.again = (out.op = "purge" /\ out.flag)]
    /\ UNCHANGED <<sessions, lru>>
    /\ UNCHANGED ctr_vars

\* The exchanges whose reliability state can report an ack ready to flush:
\* is_ack_ready depends on what is pending and on the time elapsed
AckCandidates(exchs) == {id \in DOMAIN exchs : ~mrp_is_empty(exchs[id].mrp)}

\* ExchangeMgr::pending_acks(expired_entries) on an empty map of capacity
\* MAX_MRP_ENTRIES.  ready: the exchanges for which is_ack_ready() is true;
\* part: the ready exchanges the iteration visits first.  The insert past
\* the capacity fails and its unwrap() panics.
pending_acks(exchs, ready, part) ==
    IF Cardinality(ready) <= MAX_MRP_ENTRIES
    THEN [ret |-> "Ok", entries |-> ready]
    ELSE [ret |-> Panic, entries |-> part]

\* The ready exchanges that fit the output map before the failing insert
Parts(ready) ==
    IF Cardinality(ready) <= MAX_MRP_ENTRIES THEN {ready}
    ELSE {p \in SUBSET ready : Cardinality(p) = MAX_MRP_ENTRIES}

ExchangeMgr_pending_acks(ready, part) ==
    LET r == pending_acks(exchanges, ready, part) IN
    /\ out' = [NoOut EXCEPT !.op = "pending_acks", !.ret = r.ret,
                            !.ready = ready, !.acks = r.entries]
    /\ UNCHANGED <<exchanges, sessions, lru>>
    /\ UNCHANGED ctr_vars

\* ExchangeMgr::evict_session(index)
ExchangeMgr_evict_session(index, first, fail, mrp_to) ==
    LET r == evict_session(exchanges, sessions, lru, index, first, fail, mrp_to) IN
    /\ exchanges' = r.exchanges
    /\ sessions' = r.sessions
    /\ lru' = r.lru
    /\ out' = [NoOut EXCEPT !.op = "evict_session", !.ret = r.ret,
                            !.sess_idx = index, !.exch_id = first,
                            !.calls = r.calls,
                            !.evicted = IF r.ret = "Ok" THEN index ELSE -1]
    /\ UNCHANGED ctr_vars

\* ExchangeMgr::add_session(clone_data)
ExchangeMgr_add_session(first, fail, mrp_to) ==
    LET try == sess_add(sessions, lru)
        ev  == evict_session(exchanges, sessions, lru, get_lru(lru), first, fail, mrp_to)
        re  == sess_add(ev.sessions, ev.lru)
    IN
    IF try.ret = "Ok"
    THEN /\ sessions' = try.sessions
         /\ lru' = try.lru
         /\ out' = [NoOut EXCEPT !.op = "add_session", !.sess_idx = try.idx]
         /\ UNCHANGED exchanges
         /\ UNCHANGED ctr_vars
    ELSE IF ev.ret # "Ok"
    THEN /\ exchanges' = ev.exchanges
         /\ sessions' = ev.sessions
         /\ lru' = ev.lru
         /\ out' = [NoOut EXCEPT !.op = "add_session", !.ret = ev.ret,
                                 !.calls = ev.calls, !.flag = TRUE]
         /\ UNCHANGED ctr_vars
    ELSE /\ exchanges' = ev.exchanges
         /\ sessions' = re.sessions
         /\ lru' = re.lru
         /\ out' = [NoOut EXCEPT !.op = "add_session", !.ret = re.ret,
                                 !.sess_idx = re.idx, !.calls = ev.calls,
                                 !.flag = TRUE, !.evicted = get_lru(lru)]
         /\ UNCHANGED ctr_vars

\* ExchangeMgr::recv.  src is what sess_mgr.recv() resolves the packet to:
\* the index of a session of the table, or -1 for an unencrypted packet of an
\* unknown peer, for which a session is created (None when the table is full).
\* exch_id and is_initiator are the packet's header fields.
ExchangeMgr_recv(src, exch_id, is_initiator, first, fail, mrp_to) ==
    LET role == get_complementary_role(is_initiator)
        rec  == [NoOut EXCEPT !.op = "recv", !.exch_id = exch_id,
                              !.flag = is_initiator, !.role = role]
        \* sess_mgr.recv(): (proto_rx, index)
        made == IF src = -1 THEN sess_add(sessions, lru)
                ELSE [ret |-> "Ok", idx |-> src, sessions |-> sessions, lru |-> lru]
        full == made.ret # "Ok"
        \* index = None: evict the least recently used session, post_recv again
        ev   == evict_session(exchanges, sessions, lru, get_lru(lru), first, fail, mrp_to)
        re   == sess_add(ev.sessions, ev.lru)
        index == IF full THEN re.idx ELSE made.idx
        exchs1 == IF full THEN ev.exchanges ELSE exchanges
        sess1 == IF full THEN re.sessions ELSE made.sessions
        lru1 == IF full THEN re.lru ELSE made.lru
        calls1 == IF full THEN ev.calls ELSE <<>>
        rec1 == [rec EXCEPT !.sess_idx = index,
                            !.evicted = IF full THEN get_lru(lru) ELSE -1]
        g    == mgr_get(exchs1, index, exch_id, role, is_initiator)
        exch == g.exchanges[exch_id]
    IN
    IF fail = "sess_mgr.recv"
    THEN /\ out' = [NoOut EXCEPT !.op = "recv", !.ret = ErrOf(fail)]
         /\ UNCHANGED <<exchanges, sessions, lru>>
         /\ UNCHANGED ctr_vars
    ELSE IF full /\ ev.ret # "Ok"
    THEN /\ exchanges' = ev.exchanges
         /\ sessions' = ev.sessions
         /\ lru' = ev.lru
         /\ out' = [rec EXCEPT !.ret = ev.ret, !.calls = ev.calls]
         /\ UNCHANGED ctr_vars
    ELSE IF full /\ re.ret # "Ok"
    THEN /\ exchanges' = ev.exchanges
         /\ sessions' = re.sessions
         /\ lru' = re.lru
         /\ out' = [rec EXCEPT !.ret = "Invalid", !.calls = ev.calls,
                               !.evicted = get_lru(lru)]
         /\ UNCHANGED ctr_vars
    ELSE IF fail = "session.recv"
    THEN /\ exchanges' = exchs1
         /\ sessions' = sess1
         /\ lru' = lru1
         /\ out' = [rec1 EXCEPT !.ret = ErrOf(fail),
                                !.calls = calls1 \o <<"session.recv">>]
         /\ UNCHANGED ctr_vars
    ELSE IF g.ret # "Ok"
    THEN /\ exchanges' = g.exchanges
         /\ sessions' = sess1
         /\ lru' = touch(lru1, index)
         /\ out' = [rec1 EXCEPT !.ret = g.ret,
                                !.calls = calls1 \o <<"session.recv">>]
         /\ UNCHANGED ctr_vars
    ELSE IF fail = "mrp.recv"
    THEN /\ exchanges' = g.exchanges
         /\ sessions' = sess1
         /\ lru' = touch(lru1, index)
         /\ out' = [rec1 EXCEPT !.ret = ErrOf(fail),
                                !.calls = calls1 \o <<"session.recv", "mrp.recv">>]
         /\ UNCHANGED ctr_vars
    ELSE /\ exchanges' = [g.exchanges EXCEPT ![exch_id].mrp = mrp_to]
         /\ sessions' = sess1
         /\ lru' = touch(lru1, index)
         /\ out' = [rec1 EXCEPT !.ret = IF is_state_open(exch) THEN "Some" ELSE "None",
                                !.calls = calls1 \o <<"session.recv", "mrp.recv">>]
         /\ UNCHANGED ctr_vars

-----------------------------------------------------------------------------
(* Specifications *)

Roles == {Initiator, Responder}

\* The table is full: add_session and an unknown plain peer evict
SessFull == empty_slot(sessions) = -1

\* The candidates for first when the least recently used session is evicted
LruFirsts == IF SessFull THEN Firsts(exchanges, get_lru(lru)) ELSE {0}

\* The reliability states a successful mrp call can leave
MrpAfter(fail) == IF fail \in {NoFail, "session.send"} THEN MrpStates ELSE {mrp_new}

RecvEncrypted == \E c \in Ctrs : RxCtrState_recv(c, TRUE)

RecvUnencrypted == \E c \in Ctrs : RxCtrState_recv(c, FALSE)

Get ==
    \E sess_idx \in SessIdx, id \in ExchIds, role \in Roles,
       create_new \in BOOLEAN :
        ExchangeMgr_get(sess_idx, id, role, create_new)

CloseExch == \E id \in ExchIds : Exchange_close(id)

TerminateExch == \E id \in ExchIds : Exchange_terminate(id)

Send ==
    \E exch_id \in ExchIds :
      \E fail \in (IF exch_id \in DOMAIN exchanges /\ ~SkipsTx(exchanges[exch_id])
                   THEN {NoFail, "session.pre_send", "mrp.pre_send", "session.send"}
                   ELSE {NoFail}) :
        \E mrp_to \in (IF exch_id \in DOMAIN exchanges /\ ~SkipsTx(exchanges[exch_id])
                       THEN MrpAfter(fail) ELSE {mrp_new}) :
            ExchangeMgr_send(exch_id, fail, mrp_to)

Purge == ExchangeMgr_purge

EvictSession ==
    \E index \in SessIdx :
      \E first \in Firsts(exchanges, index) :
        \E fail \in {NoFail} \cup EvictFails(exchanges, first) :
          \E mrp_to \in (IF fail = "session.send" THEN MrpStates ELSE {mrp_new}) :
            ExchangeMgr_evict_session(index, first, fail, mrp_to)

AddSession ==
    \E first \in LruFirsts :
      \E fail \in {NoFail} \cup (IF SessFull THEN EvictFails(exchanges, first) ELSE {}) :
        \E mrp_to \in (IF fail = "session.send" THEN MrpStates ELSE {mrp_new}) :
            ExchangeMgr_add_session(first, fail, mrp_to)

\* sess_mgr.recv() fails: no packet, or a packet of no session
RecvNothing ==
    ExchangeMgr_recv(-1, 0, FALSE, 0, "sess_mgr.recv", mrp_new)

\* recv of a packet of the session at index src, or of an unknown plain peer while
\* the table has room
RecvPacket ==
    \E src \in sessions \cup (IF SessFull THEN {} ELSE {-1}), exch_id \in ExchIds,
       is_initiator \in BOOLEAN :
      \E fail \in {NoFail, "session.recv", "mrp.recv"} :
        \E mrp_to \in (IF fail = NoFail THEN MrpStates ELSE {mrp_new}) :
            ExchangeMgr_recv(src, exch_id, is_initiator, 0, fail, mrp_to)

\* recv of a packet of an unknown plain peer while the table is full
RecvEvicting ==
    /\ SessFull
    /\ \E exch_id \in ExchIds, is_initiator \in BOOLEAN, first \in LruFirsts :
        \E fail \in {NoFail, "session.recv", "mrp.recv"} \cup EvictFails(exchanges, first) :
          \E mrp_to \in MrpAfter(fail) :
            ExchangeMgr_recv(-1, exch_id, is_initiator, first, fail, mrp_to)

InitCtr == RxCtrState_new /\ ExchangeMgr_new

NextCtr == RecvEncrypted \/ RecvUnencrypted

\* The counter window of one session direction
SpecCtr == InitCtr /\ [][NextCtr]_vars

InitMgr ==
    /\ ExchangeMgr_new
    /\ max_ctr = 0 /\ ctr_bitmap = U16_MAX /\ overflow_checks = FALSE
    /\ rx = [op |-> "new", msg_ctr |-> 0, is_encrypted |-> TRUE,
             ret |-> NotDup, again |-> FALSE]
    /\ enc_only = TRUE /\ probe = 0 /\ probe_accepts = 0

NextMgr ==
    \/ CloseExch
    \/ TerminateExch
    \/ Send
    \/ Purge
    \/ EvictSession
    \/ AddSession
    \/ RecvNothing
    \/ RecvPacket
    \/ RecvEvicting

\* The exchange manager driven through its public operations
SpecMgr == InitMgr /\ [][NextMgr]_vars

NextTbl == Get \/ CloseExch \/ TerminateExch \/ Purge

\* The exchange table driven as the unit tests drive it: direct calls of _get
\* on a manager whose session table is empty
SpecTbl == InitMgr /\ [][NextTbl]_vars

\* ExchangeMgr after MAX_SESSIONS calls of add_session (fill_sessions of the
\* unit tests), no exchange yet
InitExch ==
    /\ exchanges = <<>>
    /\ sessions = SessIdx
    /\ lru = [i \in 1..MAX_SESSIONS |-> i - 1]
    /\ out = NoOut
    /\ max_ctr = 0 /\ ctr_bitmap = U16_MAX /\ overflow_checks = FALSE
    /\ rx = [op |-> "new", msg_ctr |-> 0, is_encrypted |-> TRUE,
             ret |-> NotDup, again |-> FALSE]
    /\ enc_only = TRUE /\ probe = 0 /\ probe_accepts = 0

NextExch == Get \/ CloseExch \/ TerminateExch \/ Send \/ Purge

\* Exchanges of either role on the sessions of a full session table: created
\* by direct calls of _get, then closed, terminated, sent on and purged
SpecExch == InitExch /\ [][NextExch]_vars

\* Exchange ids enough to overfill the table
CapIds == 1..(MAX_EXCHANGES + 1)

GetCap ==
    \E id \in CapIds, create_new \in BOOLEAN :
        ExchangeMgr_get(0, id, Responder, create_new)

CloseCap == Exchange_close(1)

NextCap == GetCap \/ CloseCap \/ Purge

\* The exchange table filled to its capacity by direct calls of _get, one of
\* its exchanges closed, and purged
SpecCap == InitMgr /\ [][NextCap]_vars

GetData == \E id \in ExchIds : ExchangeMgr_get(0, id, Responder, TRUE)

SetDataBoxed == \E id \in ExchIds, T \in DataTypes : Exchange_set_data_boxed(id, T)

ClearDataBoxed == \E id \in ExchIds : Exchange_clear_data_boxed(id)

GetDataBoxed == \E id \in ExchIds, T \in DataTypes : Exchange_get_data_boxed(id, T)

TakeDataBoxed == \E id \in ExchIds, T \in DataTypes : Exchange_take_data_boxed(id, T)

SetDataTime == \E id \in ExchIds, some \in BOOLEAN : Exchange_set_data_time(id, some)

GetDataTime == \E id \in ExchIds : Exchange_get_data_time(id)

NextData ==
    \/ GetData
    \/ CloseExch
    \/ TerminateExch
    \/ SetDataBoxed
    \/ ClearDataBoxed
    \/ GetDataBoxed
    \/ TakeDataBoxed
    \/ SetDataTime
    \/ GetDataTime

\* The payload slot of the exchanges of a table, driven through its accessors
SpecData == InitMgr /\ [][NextData]_vars

\* Exchange ids enough to overfill the output map of pending_acks
AckIds == 1..(MAX_MRP_ENTRIES + 1)

\* recv of a packet of the session at index 0 that opens an exchange or
\* reaches an open one
RecvAck ==
    \E exch_id \in AckIds, mrp_to \in MrpStates :
        ExchangeMgr_recv(0, exch_id, TRUE, 0, NoFail, mrp_to)

PendingAcks ==
    \E ready \in SUBSET AckCandidates(exchanges) :
      \E part \in Parts(ready) :
        ExchangeMgr_pending_acks(ready, part)

NextAck == RecvAck \/ PendingAcks

\* Exchanges opened by received packets, whose acknowledgements the ticker
\* collects with pending_acks
SpecAck == InitExch /\ [][NextAck]_vars

-----------------------------------------------------------------------------
(* Claims about RxCtrState, checked under SpecCtr *)

\* c <= max - k, with c and max read as non-negative integers (u32)
UBelowBy(c, max, k) == ~ULt(max, k) /\ ~ULt(I32Sub(max, k).val, c)

\* The step is a call recv(c, TRUE)
EncRecvStep == rx'.op = "recv" /\ rx'.is_encrypted

WindowUnchanged == max_ctr' = max_ctr /\ ctr_bitmap' = ctr_bitmap

\* C1: while every call of recv on a window is encrypted, no counter value is
\* accepted more than once (probe stands for any counter value).
C1_NoCounterAcceptedTwice == enc_only => probe_accepts <= 1

\* C1 witness: probe was accepted once, the window moved past it, and a later
\* encrypted recv of probe was reported duplicate from the bitmap.
C1_Witness ==
    /\ enc_only /\ probe_accepts = 1
    /\ rx.op = "recv" /\ rx.msg_ctr = probe /\ rx.ret = Dup
    /\ max_ctr # probe

\* C2 as stated: recv(c, true) with c <= max_ctr - 16 does not accept c and
\* leaves max_ctr and the bitmap unchanged.
C2_Original ==
    [][(EncRecvStep /\ UBelowBy(rx'.msg_ctr, max_ctr, MSG_RX_STATE_BITMAP_LEN))
         => (rx'.ret # NotDup /\ WindowUnchanged)]_vars

\* C2 amended: recv(c, true) with c <= max_ctr - 17, the first counter below
\* the 16-counter window, never accepts c and leaves max_ctr and the bitmap
\* unchanged; it returns duplicate, or panics in a build with overflow checks.
C2_BelowWindowRejected ==
    [][(EncRecvStep /\ UBelowBy(rx'.msg_ctr, max_ctr, MSG_RX_STATE_BITMAP_LEN + 1))
         => /\ rx'.ret \in {Dup, Panic}
            /\ rx'.ret = Panic => overflow_checks
            /\ WindowUnchanged]_vars

\* C2 witness: an encrypted recv of exactly max_ctr - 17 was reported duplicate.
C2_Witness ==
    /\ rx.op = "recv" /\ rx.is_encrypted /\ rx.ret = Dup
    /\ U32Add(rx.msg_ctr, MSG_RX_STATE_BITMAP_LEN + 1) = max_ctr
    /\ ULt(rx.msg_ctr, max_ctr)

\* C3: when recv(c, e1) accepts c, the call recv(c, e2) that follows it
\* immediately reports duplicate, for both e2, and leaves max_ctr and the
\* bitmap unchanged.
C3_RepeatIsDuplicate ==
    [][(rx.op = "recv" /\ rx.ret = NotDup /\ rx'.op = "recv"
          /\ rx'.msg_ctr = rx.msg_ctr)
         => (rx'.ret = Dup /\ WindowUnchanged)]_vars

\* C3 witness: an unencrypted repeat of the counter just accepted below
\* max_ctr (through the bitmap) was reported duplicate.
C3_Witness ==
    /\ rx.again /\ ~rx.is_encrypted /\ rx.ret = Dup
    /\ rx.msg_ctr # max_ctr

\* A step that is a call of recv
RecvStep == rx'.op = "recv"

\* c is one of the 16 counters immediately below max, modulo 2^32
InWindowBelow(c, max) ==
    \E j \in 1..MSG_RX_STATE_BITMAP_LEN : U32Add(c, j) = max

\* C12: when recv accepts a counter that is a forward jump of k above
\* max_ctr, max_ctr becomes that counter and the bitmap becomes the previous
\* one shifted left by k, truncated to 16 bits, with bit k-1 set, for
\* 1 <= k < 16, and all ones for k >= 16.
C12_ForwardJumpBitmap ==
    [][(RecvStep /\ rx'.ret = NotDup /\ ULt(max_ctr, rx'.msg_ctr))
         => LET k == I32Sub(rx'.msg_ctr, max_ctr).val IN
            /\ max_ctr' = rx'.msg_ctr
            /\ ctr_bitmap' =
                 IF 1 <= k /\ k < 16
                 THEN ((ctr_bitmap * (2 ^ k)) % 65536) + (2 ^ (k - 1))
                 ELSE 65535]_vars

\* C12 witness: a forward jump of 14 (from 2 to 16) was accepted on the
\* bitmap 0xFFFE and left 0xA000.
C12_Witness ==
    /\ rx.op = "recv" /\ rx.ret = NotDup /\ rx.msg_ctr = 16
    /\ max_ctr = 16 /\ ctr_bitmap = 40960

\* C13 as stated: recv(c, false) with c not max_ctr and not among the 16
\* counters immediately below it returns not-duplicate and leaves max_ctr = c;
\* when c is below max_ctr the bitmap is reset to all ones.
C13_Original ==
    [][(RecvStep /\ ~rx'.is_encrypted /\ rx'.msg_ctr # max_ctr
          /\ ~InWindowBelow(rx'.msg_ctr, max_ctr))
         => /\ rx'.ret = NotDup
            /\ max_ctr' = rx'.msg_ctr
            /\ ULt(rx'.msg_ctr, max_ctr) => ctr_bitmap' = 65535]_vars

\* What C13 says, for the calls of recv that return
C13_WhenRecvReturns ==
    [][(RecvStep /\ ~rx'.is_encrypted /\ rx'.msg_ctr # max_ctr
          /\ ~InWindowBelow(rx'.msg_ctr, max_ctr) /\ rx'.ret # Panic)
         => /\ rx'.ret = NotDup
            /\ max_ctr' = rx'.msg_ctr
            /\ ULt(rx'.msg_ctr, max_ctr) => ctr_bitmap' = 65535]_vars

\* C14: across a call of recv with is_encrypted = true, max_ctr is unchanged
\* or becomes the received counter, which is then larger as a u32.
C14_MaxCtrMonotoneEncrypted ==
    [][EncRecvStep
         => \/ max_ctr' = max_ctr
            \/ max_ctr' = rx'.msg_ctr /\ ULt(max_ctr, max_ctr')]_vars

\* C14 witness: an encrypted recv moved max_ctr up to 2^31, whose i32 reading
\* is below that of the previous max_ctr.
C14_Witness ==
    /\ rx.op = "recv" /\ rx.is_encrypted /\ rx.ret = NotDup
    /\ rx.msg_ctr = I32_MIN /\ max_ctr = I32_MIN
    /\ enc_only

\* C17 as stated: every call of recv completes with a result, its signed
\* difference staying in the i32 range.
C17_Original ==
    [][RecvStep
         => /\ rx'.ret \in {Dup, NotDup}
            /\ ~I32Sub(rx'.msg_ctr, max_ctr).ovf]_vars

\* C18 as stated: with max_ctr = 65535, recv(0, e) is accepted as a forward
\* jump of 1: max_ctr becomes 0 and the bitmap is shifted by 1 with bit 0 set.
C18_Original ==
    [][(RecvStep /\ max_ctr = 65535 /\ rx'.msg_ctr = 0)
         => /\ rx'.ret = NotDup
            /\ max_ctr' = 0
            /\ ctr_bitmap' = ((ctr_bitmap * 2) % 65536) + 1]_vars

\* C18 amended: with max_ctr = 65535 the forward jump of 1 is recv(65536, e),
\* accepted for both e with the bitmap shifted by 1 and bit 0 set; recv(0, e)
\* is a backward jump beyond the window: a duplicate that changes nothing
\* when e is true, the reboot rule (max_ctr 0, bitmap all ones) when false.
C18_WrapAt16Bits ==
    [][(RecvStep /\ max_ctr = 65535)
         => /\ rx'.msg_ctr = 65536
               => /\ rx'.ret = NotDup
                  /\ max_ctr' = 65536
                  /\ ctr_bitmap' = ((ctr_bitmap * 2) % 65536) + 1
            /\ (rx'.msg_ctr = 0 /\ rx'.is_encrypted)
               => rx'.ret = Dup /\ WindowUnchanged
            /\ (rx'.msg_ctr = 0 /\ ~rx'.is_encrypted)
               => /\ rx'.ret = NotDup
                  /\ max_ctr' = 0
                  /\ ctr_bitmap' = 65535]_vars

\* C18 witness: recv(0, true) was rejected as a duplicate with max_ctr = 65535.
C18_Witness ==
    /\ rx.op = "recv" /\ rx.msg_ctr = 0 /\ rx.is_encrypted /\ rx.ret = Dup
    /\ max_ctr = 65535

\* C19 as stated: for c = max_ctr - i - 1 with 0 <= i <= 15, recv(c, e)
\* returns duplicate and changes nothing when bit i is set, and otherwise
\* returns not-duplicate and sets exactly bit i, for both values of e.
C19_Original ==
    [][\A i \in 0..15 :
         (RecvStep /\ ULt(rx'.msg_ctr, max_ctr)
            /\ U32Add(rx'.msg_ctr, i + 1) = max_ctr)
           => IF (ctr_bitmap \div (2 ^ i)) % 2 = 1
              THEN rx'.ret = Dup /\ WindowUnchanged
              ELSE /\ rx'.ret = NotDup
                   /\ max_ctr' = max_ctr
                   /\ ctr_bitmap' = ctr_bitmap + (2 ^ i)]_vars

\* What C19 says, for the calls of recv that return
C19_WhenRecvReturns ==
    [][\A i \in 0..15 :
         (RecvStep /\ rx'.ret # Panic
            /\ U32Add(rx'.msg_ctr, i + 1) = max_ctr)
           => IF (ctr_bitmap \div (2 ^ i)) % 2 = 1
              THEN rx'.ret = Dup /\ WindowUnchanged
              ELSE /\ rx'.ret = NotDup
                   /\ max_ctr' = max_ctr
                   /\ ctr_bitmap' = ctr_bitmap + (2 ^ i)]_vars

-----------------------------------------------------------------------------
(* Claims about Exchange and ExchangeMgr, checked under SpecMgr (C7: under
   SpecTbl; C11 and C20: under SpecExch; C21: under SpecCap; C22: under
   SpecAck; C23: under SpecData) *)

\* An exchange of the table before the step that the step left as it was
Kept(id) == id \in DOMAIN exchanges' /\ exchanges'[id] = exchanges[id]

\* C4: after evict_session(i) returned Ok no exchange is bound to i, no
\* session is at index i, and every exchange bound to another index is still
\* in the table, unchanged.
C4_EvictRemovesSessionAndItsExchanges ==
    [][(out'.op = "evict_session" /\ out'.ret = "Ok")
         => /\ \A id \in DOMAIN exchanges' : exchanges'[id].sess_idx # out'.sess_idx
            /\ out'.sess_idx \notin sessions'
            /\ \A id \in DOMAIN exchanges :
                 exchanges[id].sess_idx # out'.sess_idx => Kept(id)]_vars

\* C4 witness: evict_session returned Ok after notifying on an exchange bound
\* to the index, and an exchange of another session is still in the table.
C4_Witness ==
    /\ out.op = "evict_session" /\ out.ret = "Ok"
    /\ out.exch_id # 0 /\ out.exch_id \notin DOMAIN exchanges
    /\ out.calls # <<>>
    /\ DOMAIN exchanges # {}
    /\ out.sess_idx \notin sessions

\* is_purgeable, as the claim words it
C5_Purgeable(e) ==
    e.state = "Terminate" \/ (e.state = "Close" /\ e.mrp = "empty")

\* C5: purge removes exactly the purgeable exchanges and leaves every other
\* exchange in the table, unchanged.
C5_PurgeRemovesExactlyPurgeable ==
    [][out'.op = "purge"
         => /\ DOMAIN exchanges' \subseteq DOMAIN exchanges
            /\ \A id \in DOMAIN exchanges :
                 IF C5_Purgeable(exchanges[id])
                 THEN id \notin DOMAIN exchanges'
                 ELSE Kept(id)]_vars

\* C5 witness: a purge removed an exchange and left a closed exchange whose
\* reliability state is pending.
C5_Witness ==
    /\ out.op = "purge" /\ out.flag
    /\ \E id \in DOMAIN exchanges :
         exchanges[id].state = Close /\ exchanges[id].mrp = "pending"

\* C6 as stated: add_session on a full session table evicts exactly the least
\* recently used session with every exchange bound to it, keeps the other
\* exchanges, and the new session is then present; on a table with room it
\* evicts no session and removes no exchange.
C6_Original ==
    [][out'.op = "add_session"
         => IF SessFull
            THEN /\ out'.evicted = get_lru(lru)
                 /\ lru' = Tail(lru) \o <<get_lru(lru)>>
                 /\ sessions' = sessions
                 /\ \A id \in DOMAIN exchanges :
                      IF exchanges[id].sess_idx = get_lru(lru)
                      THEN id \notin DOMAIN exchanges'
                      ELSE Kept(id)
            ELSE /\ exchanges' = exchanges
                 /\ sessions \subseteq sessions'
                 /\ Cardinality(sessions') = Cardinality(sessions) + 1]_vars

\* What C6 says, for the calls of add_session that return Ok
C6_WhenAddSessionSucceeds ==
    [][(out'.op = "add_session" /\ out'.ret = "Ok")
         => IF SessFull
            THEN /\ out'.evicted = get_lru(lru)
                 /\ lru' = Tail(lru) \o <<get_lru(lru)>>
                 /\ sessions' = sessions
                 /\ \A id \in DOMAIN exchanges :
                      IF exchanges[id].sess_idx = get_lru(lru)
                      THEN id \notin DOMAIN exchanges'
                      ELSE Kept(id)
            ELSE /\ exchanges' = exchanges
                 /\ sessions \subseteq sessions'
                 /\ Cardinality(sessions') = Cardinality(sessions) + 1]_vars

\* C7: _get with create_new = true for an id that is in the table leaves the
\* table as it is, returns the exchange when the stored role and session index
\* are the requested ones and fails with NoExchange otherwise; every entry of
\* the table is stored under its own id.
C7_ExistingIdNeverRecreated ==
    [][(out'.op = "_get" /\ out'.flag /\ out'.exch_id \in DOMAIN exchanges)
         => /\ exchanges' = exchanges
            /\ out'.ret = IF /\ exchanges[out'.exch_id].role = out'.role
                             /\ exchanges[out'.exch_id].sess_idx = out'.sess_idx
                          THEN "Ok" ELSE "NoExchange"
            /\ \A id \in DOMAIN exchanges' : exchanges'[id].id = id]_vars

\* C7 witness: a lookup-or-create for an id of the table failed with
\* NoExchange because the stored session index is another one.
C7_Witness ==
    /\ out.op = "_get" /\ out.flag /\ out.ret = "NoExchange"
    /\ out.exch_id \in DOMAIN exchanges
    /\ exchanges[out.exch_id].role = out.role
    /\ exchanges[out.exch_id].sess_idx # out.sess_idx

\* recv reached the lookup of the exchange: the session was resolved and the
\* packet decrypted
LookupReached(o) ==
    /\ o.op = "recv" /\ o.sess_idx # -1
    /\ Len(o.calls) > 0
    /\ o.ret # "session.recv"
    /\ \/ o.calls[Len(o.calls)] = "session.recv"
       \/ o.calls[Len(o.calls)] = "mrp.recv"

\* The exchange id of the packet is unknown when recv looks it up
UnknownAtLookup(o) ==
    \/ o.exch_id \notin DOMAIN exchanges
    \/ exchanges[o.exch_id].sess_idx = o.evicted

\* recv created the exchange of the packet
CreatedByRecv(o) ==
    /\ UnknownAtLookup(o)
    /\ o.exch_id \in DOMAIN exchanges'

\* C8 as stated: recv creates an exchange only for a packet whose initiator
\* flag is set, with role Responder and the resolved session index; a packet
\* with an unknown id and the flag clear creates nothing, leaves the table
\* unchanged and fails with NoSpace.
C8_Original ==
    [][LookupReached(out')
         => /\ CreatedByRecv(out')
                => /\ out'.flag
                   /\ exchanges'[out'.exch_id].role = Responder
                   /\ exchanges'[out'.exch_id].sess_idx = out'.sess_idx
            /\ (UnknownAtLookup(out') /\ ~out'.flag)
                => /\ out'.ret = "NoSpace"
                   /\ exchanges' = exchanges]_vars

\* C8 amended: as C8, but the table is left unchanged only up to the
\* exchanges of the session this recv evicted to make room for the packet's
\* session: those are removed, every other exchange is kept as it was.
C8_CreateOnlyForInitiator ==
    [][LookupReached(out')
         => /\ CreatedByRecv(out')
                => /\ out'.flag
                   /\ exchanges'[out'.exch_id].role = Responder
                   /\ exchanges'[out'.exch_id].sess_idx = out'.sess_idx
                   /\ exchanges'[out'.exch_id].state = Open
            /\ (UnknownAtLookup(out') /\ ~out'.flag)
                => /\ out'.ret = "NoSpace"
                   /\ out'.exch_id \notin DOMAIN exchanges'
                   /\ \A id \in DOMAIN exchanges :
                        IF exchanges[id].sess_idx = out'.evicted
                        THEN id \notin DOMAIN exchanges'
                        ELSE Kept(id)
                   /\ DOMAIN exchanges' \subseteq DOMAIN exchanges]_vars

\* C8 witness: a packet with an unknown id and the initiator flag clear
\* failed with NoSpace in a recv that evicted a session, and the table holds
\* an exchange recv created.
C8_Witness ==
    /\ LookupReached(out) /\ ~out.flag /\ out.ret = "NoSpace"
    /\ out.exch_id \notin DOMAIN exchanges
    /\ out.evicted # -1
    /\ \E id \in DOMAIN exchanges : exchanges[id].role = Responder

\* C9: when recv succeeds it yields the packet exactly when the exchange of
\* the packet is Open, and returns Ok(None) when it is Close or Terminate; in
\* both cases the reliability state was fed the packet.
C9_YieldIffOpen ==
    (out.op = "recv" /\ out.ret \in {"Some", "None"})
        => /\ out.exch_id \in DOMAIN exchanges
           /\ (out.ret = "Some") <=> (exchanges[out.exch_id].state = Open)
           /\ (out.ret = "None") <=> (exchanges[out.exch_id].state \in {Close, Terminate})
           /\ out.calls[Len(out.calls)] = "mrp.recv"

\* C9 witness: recv returned Ok(None) for a packet of a closed exchange.
C9_Witness ==
    /\ out.op = "recv" /\ out.ret = "None"
    /\ exchanges[out.exch_id].state = Close
    /\ exchanges[out.exch_id].mrp = "pending"

\* C10: send on a Terminate exchange returns Ok without any call into the
\* session or the reliability state, which are left unchanged; send for an
\* id that is not in the table fails with NoExchange and transmits nothing.
C10_TerminatedOrUnknownSendsNothing ==
    [][out'.op = "send"
         => /\ out'.exch_id \notin DOMAIN exchanges
                => /\ out'.ret = "NoExchange"
                   /\ out'.calls = <<>>
                   /\ UNCHANGED <<exchanges, sessions, lru>>
            /\ (out'.exch_id \in DOMAIN exchanges
                  /\ exchanges[out'.exch_id].state = Terminate)
                => /\ out'.ret = "Ok"
                   /\ out'.calls = <<>>
                   /\ UNCHANGED <<exchanges, sessions, lru>>]_vars

\* C10 witness: send on a terminated exchange, whose reliability state is
\* pending, returned Ok with no call made.
C10_Witness ==
    /\ out.op = "send" /\ out.ret = "Ok" /\ out.calls = <<>>
    /\ out.exch_id \in DOMAIN exchanges
    /\ exchanges[out.exch_id].state = Terminate
    /\ exchanges[out.exch_id].mrp = "pending"

\* C11 as stated: the state of an exchange changes only from Open: an
\* exchange in Close or in Terminate stays in that state for as long as it is
\* in the table.
C11_Original ==
    [][\A id \in DOMAIN exchanges \cap DOMAIN exchanges' :
         exchanges[id].state # Open
           => exchanges'[id].state = exchanges[id].state]_vars

\* The part of C11 the code keeps: the state of an exchange of the table is
\* changed by close and by terminate only, not by send, purge or _get.
C11_OnlyCloseOrTerminateChangeState ==
    [][\A id \in DOMAIN exchanges \cap DOMAIN exchanges' :
         exchanges'[id].state # exchanges[id].state
           => /\ out'.exch_id = id
              /\ \/ out'.op = "close" /\ exchanges'[id].state = Close
                 \/ out'.op = "terminate" /\ exchanges'[id].state = Terminate]_vars

\* C15: a purge that directly follows a purge removes nothing and leaves the
\* table as the first purge left it.
C15_PurgeIdempotent ==
    [][(out.op = "purge" /\ out'.op = "purge")
         => exchanges' = exchanges /\ ~out'.flag]_vars

\* C15 witness: a purge directly after a purge that removed an exchange, on a
\* table that still holds a closed exchange with a pending reliability state.
C15_Witness ==
    /\ out.op = "purge" /\ out.again /\ ~out.flag
    /\ \E id \in DOMAIN exchanges :
         exchanges[id].state = Close /\ exchanges[id].mrp = "pending"

\* C16 as stated: when the build of the CloseSession report or its send
\* fails, evict_session(i) still removes every exchange bound to i and the
\* session at i.
C16_Original ==
    [][(out'.op = "evict_session" /\ out'.ret # "Ok")
         => /\ \A id \in DOMAIN exchanges' : exchanges'[id].sess_idx # out'.sess_idx
            /\ out'.sess_idx \notin sessions']_vars

\* The calls Exchange::send makes when none fails, in order
SendCalls == <<"session.pre_send", "mrp.pre_send", "session.send">>

\* C20: send on an exchange that is not Terminate stamps the exchange's id
\* and sets the initiator bit exactly for role Initiator, then calls
\* session.pre_send, mrp.pre_send and session.send in this order, stopping at
\* the first that fails and returning its error with nothing transmitted.
C20_SendStampsThenCallsInOrder ==
    [][(out'.op = "send" /\ out'.exch_id \in DOMAIN exchanges
          /\ exchanges[out'.exch_id].state # "Terminate")
         => LET e == exchanges[out'.exch_id] IN
            /\ out'.hdr_id = e.id
            /\ out'.flag = (e.role = "Initiator")
            /\ out'.ret \in {"Ok", "session.pre_send", "mrp.pre_send", "session.send"}
            /\ out'.ret = "Ok" => out'.calls = SendCalls
            /\ out'.ret = "session.pre_send"
                 => /\ out'.calls = SubSeq(SendCalls, 1, 1)
                    /\ exchanges' = exchanges /\ lru' = lru
            /\ out'.ret = "mrp.pre_send"
                 => /\ out'.calls = SubSeq(SendCalls, 1, 2)
                    /\ exchanges' = exchanges /\ lru' = lru
            /\ out'.ret = "session.send"
                 => out'.calls = SendCalls /\ lru' = lru]_vars

\* C20 witness: a send on an Initiator exchange stamped the id and the
\* initiator bit and stopped at the failure of mrp.pre_send.
C20_Witness ==
    /\ out.op = "send" /\ out.ret = "mrp.pre_send"
    /\ out.role = Initiator /\ out.flag /\ out.hdr_id = out.exch_id
    /\ out.calls = <<"session.pre_send", "mrp.pre_send">>
    /\ out.exch_id \in DOMAIN exchanges

\* C24: every exchange of the table is bound to an index that holds a
\* session: no exchange outlives its session, so none is found attached to a
\* session that took the index over.
C24_NoExchangeWithoutSession ==
    \A id \in DOMAIN exchanges : exchanges[id].sess_idx \in sessions

\* C24 witness: recv evicted a session, the new session took its index, and
\* the exchange recv created is bound to it next to an exchange of the other
\* session.
C24_Witness ==
    /\ out.op = "recv" /\ out.ret = "Some" /\ out.evicted # -1
    /\ out.sess_idx = out.evicted
    /\ exchanges[out.exch_id].sess_idx = out.evicted
    /\ \E id \in DOMAIN exchanges : exchanges[id].sess_idx # out.evicted

\* C21: the table never holds more than 8 exchanges; _get with create_new
\* for an id that is not in a table of 8 exchanges fails with NoSpace and
\* leaves the table unchanged, whether or not an exchange is purgeable.
C21_TableCapacity ==
    [][/\ Cardinality(DOMAIN exchanges') <= 8
       /\ (out'.op = "_get" /\ out'.flag
             /\ out'.exch_id \notin DOMAIN exchanges
             /\ Cardinality(DOMAIN exchanges) = 8)
            => out'.ret = "NoSpace" /\ exchanges' = exchanges]_vars

\* C21 witness: a create attempt failed with NoSpace on a table of 8
\* exchanges of which one is closed with no reliability state pending.
C21_Witness ==
    /\ out.op = "_get" /\ out.flag /\ out.ret = "NoSpace"
    /\ out.exch_id \notin DOMAIN exchanges
    /\ Cardinality(DOMAIN exchanges) = 8
    /\ \E id \in DOMAIN exchanges :
         exchanges[id].state = Close /\ exchanges[id].mrp = "empty"

\* C23 as stated: take_data_boxed::<T> returns the blob and leaves the slot
\* None when the slot holds a blob of type T, and otherwise returns absent and
\* leaves the slot as it was.
C23_Original ==
    [][out'.op = "take_data_boxed"
         => LET d == exchanges[out'.exch_id].data
                T == out'.ty
            IN
            IF d = (IF T = "A" THEN "Boxed<A>" ELSE "Boxed<B>")
            THEN out'.ret = "Some" /\ exchanges'[out'.exch_id].data = "None"
            ELSE out'.ret = "None" /\ exchanges'[out'.exch_id].data = d]_vars

\* What C23 says, for a slot that does not hold a blob of another type
C23_WhenNoBlobOfOtherType ==
    [][(out'.op = "take_data_boxed"
          /\ exchanges[out'.exch_id].data \in {"None", "Time", "Boxed<" \o out'.ty \o ">"})
         => LET d == exchanges[out'.exch_id].data IN
            IF d \notin {"None", "Time"}
            THEN out'.ret = "Some" /\ exchanges'[out'.exch_id].data = "None"
            ELSE out'.ret = "None" /\ exchanges'[out'.exch_id].data = d]_vars

\* C22 as stated: pending_acks on an empty output map completes normally,
\* leaves in the map exactly the ids of the exchanges that report ack-ready,
\* and modifies no exchange.
C22_Original ==
    [][out'.op = "pending_acks"
         => /\ out'.ret = "Ok"
            /\ out'.acks = out'.ready
            /\ exchanges' = exchanges]_vars

\* What C22 says, for the calls with at most 4 exchanges ack-ready
C22_WhenAtMostFourReady ==
    [][(out'.op = "pending_acks" /\ Cardinality(out'.ready) <= MAX_MRP_ENTRIES)
         => /\ out'.ret = "Ok"
            /\ out'.acks = out'.ready
            /\ exchanges' = exchanges]_vars

=============================================================================
